---------------------------- MODULE Spec2Model ----------------------------
(***************************************************************************)
(* A model of the PBFT replica of RustBlockChain (src/src/node.rs,         *)
(* message.rs, network.rs, main.rs).                                       *)
(*                                                                         *)
(* A replica (struct Node) is a record; every handler of node.rs is an     *)
(* operator from a context [n, out, file] to the set of contexts the       *)
(* handler can end in: n is the Node, out the SignedMessages it has        *)
(* broadcast, file the content of node_<id>_state.json.  A handler has     *)
(* more than one outcome only where the code iterates over a HashMap,      *)
(* whose order Rust leaves unspecified.  A handler that panics ends in a   *)
(* context with panic set.                                                 *)
(***************************************************************************)
EXTENDS Integers, Sequences, FiniteSets, Bags, TLC

(***************************************************************************)
(* Configuration (crate::config) and the bounds of the model.              *)
(***************************************************************************)
F == 1

N == 4

\* client requests in one behaviour of Spec
MaxRequests == 1

\* timeouts in one behaviour of SpecViewChange
MaxTimeouts == 3

\* Commits the faulty replica sends in one behaviour of SpecCommit
MaxCommitSends == 1

\* ByzantineVotes the faulty replica sends in one behaviour of SpecAccusation
MaxVotes == 3

\* sends of the faulty primary in one behaviour of SpecEquivocation
MaxEquivocation == 4

\* sends of the faulty replica in one behaviour of SpecRestart
MaxRestartSends == 2

\* crashes (kills of the process) in one behaviour of SpecRestart
MaxCrashes == 1

\* sends of the faulty replica in one behaviour of SpecForgedViewChange
MaxViewChangeSends == 2

\* client requests in one behaviour of SpecReinject
MaxPending == 2

\* sends of the faulty replica in one behaviour of SpecInjection
MaxInjections == 2

\* ByzantineVotes the faulty replica sends in one behaviour of SpecBlacklist
MaxBlacklistVotes == 3

\* the messages an inbox holds in SpecTransport (mpsc::channel(100))
Capacity == 1

\* client requests in one behaviour of SpecTransport
MaxTransportRequests == 1

Replicas == 0 .. (N - 1)

Operations == {"op1", "op2"}

\* the content of a file that does not exist
NoFile == [absent |-> TRUE]

(***************************************************************************)
(* message.rs: the variants of PBFTMessage.                                *)
(***************************************************************************)
Request(operation) ==
    [type |-> "Request", operation |-> operation]

PrePrepare(view, sequence_number, digest) ==
    [type |-> "PrePrepare", view |-> view,
     sequence_number |-> sequence_number, digest |-> digest]

Prepare(view, sequence_number, digest, sender_id) ==
    [type |-> "Prepare", view |-> view, sequence_number |-> sequence_number,
     digest |-> digest, sender_id |-> sender_id]

Commit(view, sequence_number, digest) ==
    [type |-> "Commit", view |-> view,
     sequence_number |-> sequence_number, digest |-> digest]

ViewChange(view, last_sequence_number, node_id) ==
    [type |-> "ViewChange", view |-> view,
     last_sequence_number |-> last_sequence_number, node_id |-> node_id]

NewView(view, view_change_messages) ==
    [type |-> "NewView", view |-> view,
     view_change_messages |-> view_change_messages]

PubKey(node_id, public_key) ==
    [type |-> "PubKey", node_id |-> node_id, public_key |-> public_key]

SignedMessage(message, signature, sender_id) ==
    [type |-> "SignedMessage", message |-> message,
     signature |-> signature, sender_id |-> sender_id]

ByzantineVote(suspected_id, sender_id) ==
    [type |-> "ByzantineVote", suspected_id |-> suspected_id,
     sender_id |-> sender_id]

(***************************************************************************)
(* Ed25519.  A key pair is named by a number; the public key of pair k is  *)
(* k.  A signature records the pair that made it and the bytes signed, so  *)
(* it verifies under one public key and for one message only.              *)
(***************************************************************************)
Sign(keypair, message) ==
    [key |-> keypair, bytes |-> message]

Verify(pubkey, message, signature) ==
    signature = [key |-> pubkey, bytes |-> message]

\* bytes that are no Ed25519 signature (a wrong length, a bad last byte):
\* Signature::from_bytes returns Err for them and Ok for all that Sign makes
MalformedSignature(message) ==
    [key |-> -1, bytes |-> message]

from_bytes_is_ok(signature) ==
    signature.key >= 0

\* compute_digest: SHA-256 of the operation, in hex.  The digest of an
\* operation is a string of its own, different for different operations.
compute_digest(operation) ==
    CASE operation = "op1" -> "sha256_op1"
      [] operation = "op2" -> "sha256_op2"
      [] OTHER -> "sha256_other"

\* the digest a replica started with the "byzantine" argument puts in its Prepares
wrong_digest == "wrong_digest"

\* the digests of the operations of the model
Digests == {compute_digest(o) : o \in Operations}

is_primary(n) ==
    n.id = n.view % N

(***************************************************************************)
(* NodeState and its file.                                                 *)
(***************************************************************************)
EmptyNodeState ==
    [prepared |-> {}, committed |-> {}, messages |-> <<>>,
     view_change_messages |-> <<>>,
     byzantine_votes |-> [s \in Replicas |-> {}]]

\* NodeState::load: the file's content, or the empty state when there is none
load(file) ==
    IF file = NoFile THEN EmptyNodeState ELSE file

\* NodeState::save: the whole NodeState replaces the file
save(c) ==
    [c EXCEPT !.file = c.n.state]

\* Node::new
NewNode(id, view, keypair, public_keys, is_byzantine, file) ==
    [id |-> id, view |-> view, sequence_number |-> 0, digest |-> "",
     state |-> load(file), view_change_in_progress |-> FALSE,
     keypair |-> keypair, public_keys |-> public_keys,
     is_byzantine |-> is_byzantine, suspected_nodes |-> {},
     blacklist |-> {}, pending_requests |-> <<>>,
     new_view_timer |-> "None"]

\* panic: the handler has panicked (an unwrap on an Err) and the task of
\* the replica has ended
Ctx(n, file) ==
    [n |-> n, out |-> <<>>, file |-> file, panic |-> FALSE]

(***************************************************************************)
(* Node::broadcast: the view of a PrePrepare, Prepare or Commit is set to  *)
(* the replica's view, the message is signed and one SignedMessage goes to *)
(* every other replica (the fan-out is Apply below).                      *)
(***************************************************************************)
broadcast(c, msg) ==
    LET msg_with_view ==
            IF msg.type \in {"PrePrepare", "Prepare", "Commit"}
            THEN [msg EXCEPT !.view = c.n.view]
            ELSE msg
        signature == Sign(c.n.keypair, msg_with_view)
        signed_msg == SignedMessage(msg_with_view, signature, c.n.id)
    IN  [c EXCEPT !.out = Append(@, signed_msg)]


(***************************************************************************)
(* Node::handle_request.                                                   *)
(***************************************************************************)
handle_request(c, msg) ==
    LET c1 == [c EXCEPT !.n.pending_requests = Append(@, msg)]
    IN  IF is_primary(c1.n) /\ ~c1.n.view_change_in_progress
        THEN LET digest == compute_digest(msg.operation)
                 c2 == [c1 EXCEPT !.n.sequence_number = @ + 1,
                                  !.n.digest = digest]
             IN  broadcast(c2, PrePrepare(c2.n.view, c2.n.sequence_number,
                                          digest))
        ELSE c1

(***************************************************************************)
(* Node::handle_preprepare.                                                *)
(***************************************************************************)
handle_preprepare(c, msg) ==
    IF msg.view = c.n.view /\ ~is_primary(c.n)
    THEN LET c1 == [c EXCEPT !.n.sequence_number = msg.sequence_number,
                             !.n.digest = msg.digest]
             prepare_digest ==
                 IF c.n.is_byzantine THEN wrong_digest ELSE msg.digest
         IN  broadcast(c1, Prepare(msg.view, msg.sequence_number,
                                   prepare_digest, c.n.id))
    ELSE c

(***************************************************************************)
(* HashMap helpers.  A map is a function on its keys.  An iteration over a *)
(* map visits its entries in an order the program does not control.        *)
(***************************************************************************)
Indices(messages, type) ==
    {k \in 1 .. Len(messages) : messages[k].type = type}

\* the keys whose value set is largest: what max_by_key / find can return
LargestKeys(map) ==
    {d \in DOMAIN map :
        \A e \in DOMAIN map : Cardinality(map[e]) <= Cardinality(map[d])}

\* the orders in which a for loop can visit the (key, member) pairs of a
\* map of sets: the pairs of one key are visited together
VisitOrders(pairs) ==
    {s \in [1 .. Cardinality(pairs) -> pairs] :
        /\ \A a, b \in DOMAIN s : a # b => s[a] # s[b]
        /\ \A a, b, k \in DOMAIN s :
              (a < b /\ b < k /\ s[a][1] = s[k][1]) => s[b][1] = s[a][1]}

RECURSIVE broadcast_votes(_, _)
broadcast_votes(c, order) ==
    IF order = <<>>
    THEN c
    ELSE LET sender_id == Head(order)[2]
             c1 == [c EXCEPT !.n.suspected_nodes = @ \union {sender_id}]
         IN  broadcast_votes(broadcast(c1, ByzantineVote(sender_id, c.n.id)),
                             Tail(order))

(***************************************************************************)
(* Node::detect_byzantine_nodes: the set of its outcomes.                  *)
(***************************************************************************)
detect_byzantine_nodes(c, messages) ==
    LET prepares == Indices(messages, "Prepare")
        digest_map ==
            [d \in {messages[k].digest : k \in prepares} |->
                {messages[k].sender_id :
                    k \in {j \in prepares : messages[j].digest = d}}]
    IN  UNION {
          {broadcast_votes(c, order) :
              order \in VisitOrders(
                  {<<d, s>> \in (DOMAIN digest_map) \X Replicas :
                      d # correct_digest /\ s \in digest_map[d]})}
          : correct_digest \in LargestKeys(digest_map)}

(***************************************************************************)
(* Node::handle_prepare: the set of its outcomes.                          *)
(***************************************************************************)
digest_counts_of(n, messages) ==
    LET matching ==
            {k \in Indices(messages, "Prepare") :
                /\ messages[k].view = n.view
                /\ messages[k].sequence_number = n.sequence_number}
    IN  [d \in {messages[k].digest : k \in matching} |-> {n.id}]

enter_prepared(c, correct_digest) ==
    IF <<c.n.sequence_number, correct_digest>> \notin c.n.state.prepared
    THEN LET c1 == [c EXCEPT !.n.state.prepared =
                        @ \union {<<c.n.sequence_number, correct_digest>>}]
         IN  broadcast(save(c1), Commit(c1.n.view, c1.n.sequence_number,
                                        correct_digest))
    ELSE c

handle_prepare(c, msg) ==
    LET c1 == [c EXCEPT !.n.state.messages = Append(@, msg)]
        messages == c1.n.state.messages
        digest_counts == digest_counts_of(c1.n, messages)
        detected ==
            IF Cardinality(DOMAIN digest_counts) > 1
            THEN detect_byzantine_nodes(c1, messages)
            ELSE {c1}
        sizes == {Cardinality(digest_counts[d]) : d \in DOMAIN digest_counts}
        max_count ==
            IF sizes = {} THEN 0
            ELSE CHOOSE m \in sizes : \A k \in sizes : k <= m
    IN  IF max_count >= 2 * F
        THEN UNION {
               {enter_prepared(c2, correct_digest) : c2 \in detected}
               : correct_digest \in LargestKeys(digest_counts)}
        ELSE detected

(***************************************************************************)
(* Node::handle_byzantine_vote.                                            *)
(***************************************************************************)
handle_byzantine_vote(c, suspected_id, sender_id) ==
    LET entry == c.n.state.byzantine_votes[suspected_id] \union {sender_id}
        c1 == [c EXCEPT !.n.state.byzantine_votes[suspected_id] = entry]
    IN  IF Cardinality(entry) >= 2 * F + 1
        THEN [c1 EXCEPT !.n.blacklist = @ \union {suspected_id}]
        ELSE c1

(***************************************************************************)
(* Node::handle_commit.                                                    *)
(***************************************************************************)
\* handle_commit that also broadcasts a Commit when it commits
handle_commit_rebroadcast(c, msg) ==
    LET c1 == [c EXCEPT !.n.state.messages = Append(@, msg)]
        messages == c1.n.state.messages
        commit_count ==
            Cardinality({k \in Indices(messages, "Commit") :
                /\ messages[k].view = c.n.view
                /\ messages[k].sequence_number = c.n.sequence_number
                /\ messages[k].digest = c.n.digest})
        pair == <<c.n.sequence_number, c.n.digest>>
    IN  IF commit_count >= 2 * F + 1 /\ pair \notin c1.n.state.committed
        THEN broadcast(save([c1 EXCEPT !.n.state.committed =
                                 @ \union {pair}]),
                       Commit(c.n.view, c.n.sequence_number, c.n.digest))
        ELSE c1

handle_commit(c, msg) ==
    LET c1 == [c EXCEPT !.n.state.messages = Append(@, msg)]
        messages == c1.n.state.messages
        commit_count ==
            Cardinality({k \in Indices(messages, "Commit") :
                /\ messages[k].view = c.n.view
                /\ messages[k].sequence_number = c.n.sequence_number
                /\ messages[k].digest = c.n.digest})
        pair == <<c.n.sequence_number, c.n.digest>>
    IN  IF commit_count >= 2 * F + 1 /\ pair \notin c1.n.state.committed
        THEN save([c1 EXCEPT !.n.state.committed = @ \union {pair}])
        ELSE c1

(***************************************************************************)
(* Node::start_view_change and Node::handle_timeout.  The task the timer   *)
(* spawns sleeps, writes a log line and ends: new_view_timer is "Running"  *)
(* while it sleeps and "Finished" after (the handle stays in the field).   *)
(***************************************************************************)
start_view_change(c) ==
    LET c1 == [c EXCEPT !.n.view_change_in_progress = TRUE,
                        !.n.view = @ + 1,
                        !.n.sequence_number = 0,
                        !.n.digest = ""]
        view_change_msg ==
            ViewChange(c1.n.view, c1.n.sequence_number, c1.n.id)
        c2 == broadcast(c1, view_change_msg)
    IN  [c2 EXCEPT !.n.state.view_change_messages =
                       Append(@, view_change_msg),
                   !.n.new_view_timer = "Running"]

handle_timeout(c) ==
    IF ~c.n.view_change_in_progress THEN start_view_change(c) ELSE c

(***************************************************************************)
(* Node::send_new_view, Node::handle_view_change, Node::handle_new_view.   *)
(***************************************************************************)
send_new_view(c) ==
    LET new_view_msg ==
            NewView(c.n.view, c.n.state.view_change_messages)
        c1 == broadcast(c, new_view_msg)
    IN  [c1 EXCEPT !.n.new_view_timer = "None",
                   !.n.view_change_in_progress = FALSE]

handle_view_change(c, msg) ==
    IF msg.view = c.n.view
    THEN LET c1 == [c EXCEPT !.n.state.view_change_messages =
                                 Append(@, msg)]
             vcms == c1.n.state.view_change_messages
             count ==
                 Cardinality({k \in Indices(vcms, "ViewChange") :
                                 vcms[k].view = c.n.view})
         IN  IF count >= 2 * F /\ is_primary(c1.n)
             THEN send_new_view(c1)
             ELSE c1
    ELSE c

RECURSIVE handle_requests(_, _)
handle_requests(c, requests) ==
    IF requests = <<>>
    THEN c
    ELSE handle_requests(handle_request(c, Head(requests)), Tail(requests))

\* handle_new_view without its guard on the view
handle_new_view_any(c, msg) ==
    LET c1 == [c EXCEPT !.n.view = msg.view,
                        !.n.view_change_in_progress = FALSE,
                        !.n.sequence_number = 0,
                        !.n.digest = "",
                        !.n.state.view_change_messages = <<>>,
                        !.n.new_view_timer = "None"]
    IN  IF is_primary(c1.n) /\ c1.n.pending_requests # <<>>
        THEN handle_requests(c1, c1.n.pending_requests)
        ELSE c1

handle_new_view(c, msg) ==
    IF msg.view >= c.n.view
    THEN LET c1 == [c EXCEPT !.n.view = msg.view,
                             !.n.view_change_in_progress = FALSE,
                             !.n.sequence_number = 0,
                             !.n.digest = "",
                             !.n.state.view_change_messages = <<>>,
                             !.n.new_view_timer = "None"]
         IN  IF is_primary(c1.n) /\ c1.n.pending_requests # <<>>
             THEN handle_requests(c1, c1.n.pending_requests)
             ELSE c1
    ELSE c

(***************************************************************************)
(* Node::process_message and Node::handle_message: the set of outcomes of  *)
(* handling one message taken from the inbox.                              *)
(***************************************************************************)
process_message(c, msg) ==
    CASE msg.type = "PrePrepare" -> {handle_preprepare(c, msg)}
      [] msg.type = "Prepare" -> handle_prepare(c, msg)
      [] msg.type = "Commit" -> {handle_commit(c, msg)}
      [] msg.type = "ViewChange" -> {handle_view_change(c, msg)}
      [] msg.type = "NewView" -> {handle_new_view(c, msg)}
      [] msg.type = "ByzantineVote" ->
            {handle_byzantine_vote(c, msg.suspected_id, msg.sender_id)}
      [] msg.type = "PubKey" ->
            \* PublicKey::from_bytes(..).unwrap(): bytes that are no key
            \* (a negative number here) make the handler panic
            IF msg.public_key >= 0
            THEN {[c EXCEPT !.n.public_keys =
                     (msg.node_id :> msg.public_key) @@ @]}
            ELSE {[c EXCEPT !.panic = TRUE]}
      [] msg.type = "Request" -> {handle_request(c, msg)}
      [] OTHER -> {c}

RECURSIVE handle_message(_, _)
handle_message(c, msg) ==
    LET sender_id ==
            CASE msg.type = "SignedMessage" -> msg.sender_id
              [] msg.type = "ByzantineVote" -> msg.sender_id
              [] msg.type = "PubKey" -> msg.node_id
              [] OTHER -> c.n.id
    IN  IF sender_id \in c.n.blacklist
        THEN {c}
        ELSE IF msg.type = "SignedMessage"
        THEN IF sender_id \in DOMAIN c.n.public_keys
             THEN IF ~from_bytes_is_ok(msg.signature)
                  THEN {[c EXCEPT !.panic = TRUE]}
                  ELSE IF Verify(c.n.public_keys[sender_id], msg.message,
                                 msg.signature)
                  THEN handle_message(c, msg.message)
                  ELSE {c}
             ELSE {c}
        ELSE process_message(c, msg)

(***************************************************************************)
(* The system: N replicas in one harness, each registered in NETWORK and   *)
(* constructed with the public keys of all (Node::new takes them as an     *)
(* argument), in the state they are in once run() has started: view 0, no  *)
(* durable file, empty inboxes.  A faulty replica runs no code of its own: *)
(* what it sends is the adversary's choice (ByzantineSend).  A step of a   *)
(* replica is one whole handler: handlers of one replica never overlap.    *)
(* In all specifications but SpecTransport the sends of a broadcast are    *)
(* part of the handler's step and the inboxes never fill up.               *)
(***************************************************************************)
VARIABLES
    node,      \* node[i]: the Node of replica i
    inbox,     \* inbox[i]: the mpsc channel registered for i in NETWORK
    disk,      \* disk[i]: the content of node_<i>_state.json
    sent,      \* sent[i]: the bag of messages i has broadcast (history)
    faulty,    \* the replicas under the adversary's control
    budget,    \* how many requests, timeouts, faulty sends and crashes
               \* may happen
    used,      \* how many of each have happened
    pc,        \* pc[i]: "new" after Node::new, "running" in the loop of
               \* run(), "down" when the task has ended
    lock,      \* the replicas holding the NETWORK mutex: none or one
    outbox     \* outbox[i]: the send_message calls the broadcasts of i's
               \* current handler still have to make, as <<peer, message>>

vars == <<node, inbox, disk, sent, faulty, budget, used, pc, lock, outbox>>

Honest == Replicas \ faulty

\* replica i is in the loop of run()
Running(i) == i \in Honest /\ pc[i] = "running"

\* the channel registered for j has a receiver
Receives(j) == j \in Honest /\ pc[j] # "down"

AllKeys == [j \in Replicas |-> j]

Budget(requests, timeouts, byz) ==
    [requests |-> requests, timeouts |-> timeouts, byz |-> byz,
     crashes |-> 0]

WithCrashes(events, crashes) ==
    [events EXCEPT !.crashes = crashes]

RECURSIVE Inner(_)
Inner(out) ==
    IF out = <<>> THEN EmptyBag
    ELSE SetToBag({Head(out).message}) (+) Inner(Tail(out))

\* the replica's new state, and send_message to every other replica for
\* every SignedMessage broadcast, in the order of the broadcasts
Apply(i, c) ==
    /\ node' = [node EXCEPT ![i] = c.n]
    /\ disk' = [disk EXCEPT ![i] = c.file]
    /\ inbox' = [j \in Replicas |->
                    IF j = i \/ ~Receives(j) THEN inbox[j]
                    ELSE inbox[j] \o c.out]
    /\ sent' = [sent EXCEPT ![i] = @ (+) Inner(c.out)]
    /\ pc' = [pc EXCEPT ![i] = IF c.panic THEN "down" ELSE @]
    /\ UNCHANGED <<lock, outbox>>

InitWith(faultySet, flagged, events) ==
    /\ faulty = faultySet
    /\ budget = events
    /\ node = [i \in Replicas |->
                  NewNode(i, 0, i, AllKeys, i \in flagged, NoFile)]
    /\ inbox = [i \in Replicas |-> <<>>]
    /\ disk = [i \in Replicas |-> NoFile]
    /\ sent = [i \in Replicas |-> EmptyBag]
    /\ used = Budget(0, 0, 0)
    /\ pc = [i \in Replicas |-> "running"]
    /\ lock = {}
    /\ outbox = [i \in Replicas |-> <<>>]

\* a client hands a Request to replica i
ClientRequest(i, operation) ==
    /\ Running(i)
    /\ used.requests < budget.requests
    /\ Apply(i, handle_request(Ctx(node[i], disk[i]), Request(operation)))
    /\ used' = [used EXCEPT !.requests = @ + 1]
    /\ UNCHANGED <<faulty, budget>>

\* Node::run, the receive branch of the select
Deliver(i) ==
    /\ Running(i)
    /\ inbox[i] # <<>>
    /\ \E c \in handle_message(Ctx(node[i], disk[i]), Head(inbox[i])) :
          /\ node' = [node EXCEPT ![i] = c.n]
          /\ disk' = [disk EXCEPT ![i] = c.file]
          /\ inbox' = [j \in Replicas |->
                          IF j = i THEN Tail(inbox[i])
                          ELSE IF ~Receives(j) THEN inbox[j]
                          ELSE inbox[j] \o c.out]
          /\ sent' = [sent EXCEPT ![i] = @ (+) Inner(c.out)]
          /\ pc' = [pc EXCEPT ![i] = IF c.panic THEN "down" ELSE @]
    /\ UNCHANGED <<faulty, budget, used, lock, outbox>>

\* Node::run, the timeout branch of the select
Timeout(i) ==
    /\ Running(i)
    /\ used.timeouts < budget.timeouts
    /\ Apply(i, handle_timeout(Ctx(node[i], disk[i])))
    /\ used' = [used EXCEPT !.timeouts = @ + 1]
    /\ UNCHANGED <<faulty, budget>>

\* the task spawned by start_view_change wakes up
NewViewTimerExpire(i) ==
    /\ Running(i)
    /\ node[i].new_view_timer = "Running"
    /\ node' = [node EXCEPT ![i].new_view_timer = "Finished"]
    /\ UNCHANGED <<inbox, disk, sent, faulty, budget, used, pc, lock,
                   outbox>>

\* handle_message run on `copies` deliveries of the same message in a row
RECURSIVE handle_copies(_, _, _)
handle_copies(c, msg, copies) ==
    IF copies = 0 \/ c.panic
    THEN {c}
    ELSE UNION {handle_copies(c1, msg, copies - 1) :
                   c1 \in handle_message(c, msg)}

\* a faulty replica b signs msg with its own key and sends it, `copies`
\* times over, to i alone; i takes the copies from its inbox one after
\* the other
ByzantineSend(b, i, msg, copies) ==
    /\ b \in faulty
    /\ Running(i)
    /\ used.byz < budget.byz
    /\ \E c \in handle_copies(Ctx(node[i], disk[i]),
                             SignedMessage(msg, Sign(b, msg), b), copies) :
          Apply(i, c)
    /\ used' = [used EXCEPT !.byz = @ + 1]
    /\ UNCHANGED <<faulty, budget>>

\* a faulty replica b sends i an envelope in its own name whose signature
\* bytes are no signature
ByzantineSendMalformed(b, i, msg) ==
    /\ b \in faulty
    /\ Running(i)
    /\ used.byz < budget.byz
    /\ \E c \in handle_message(Ctx(node[i], disk[i]),
                    SignedMessage(msg, MalformedSignature(msg), b)) :
          Apply(i, c)
    /\ used' = [used EXCEPT !.byz = @ + 1]
    /\ UNCHANGED <<faulty, budget>>

\* a faulty replica b puts msg as it is, in no SignedMessage, into the
\* inbox of i (send_message takes any PBFTMessage), and i takes it
ByzantineSendBare(b, i, msg) ==
    /\ b \in faulty
    /\ Running(i)
    /\ used.byz < budget.byz
    /\ \E c \in handle_message(Ctx(node[i], disk[i]), msg) : Apply(i, c)
    /\ used' = [used EXCEPT !.byz = @ + 1]
    /\ UNCHANGED <<faulty, budget>>

\* Node::run up to the loop: the replica broadcasts its public key
Run(i) ==
    /\ i \in Honest
    /\ pc[i] = "new"
    /\ LET c == broadcast(Ctx(node[i], disk[i]),
                          PubKey(node[i].id, node[i].keypair))
       IN  /\ inbox' = [j \in Replicas |->
                           IF j = i \/ ~Receives(j) THEN inbox[j]
                           ELSE inbox[j] \o c.out]
           /\ sent' = [sent EXCEPT ![i] = @ (+) Inner(c.out)]
    /\ pc' = [pc EXCEPT ![i] = "running"]
    /\ UNCHANGED <<node, disk, faulty, budget, used, lock, outbox>>

\* the process of replica i is killed; its file stays
Crash(i) ==
    /\ Running(i)
    /\ used.crashes < budget.crashes
    /\ pc' = [pc EXCEPT ![i] = "down"]
    /\ used' = [used EXCEPT !.crashes = @ + 1]
    /\ UNCHANGED <<node, inbox, disk, sent, faulty, budget, lock, outbox>>

\* the process of replica i is started again: a new channel is registered
\* and Node::new loads the file
Restart(i) ==
    /\ i \in Honest
    /\ pc[i] = "down"
    /\ node' = [node EXCEPT ![i] =
                   NewNode(i, 0, node[i].keypair, AllKeys,
                           node[i].is_byzantine, disk[i])]
    /\ inbox' = [inbox EXCEPT ![i] = <<>>]
    /\ pc' = [pc EXCEPT ![i] = "new"]
    /\ UNCHANGED <<disk, sent, faulty, budget, used, lock, outbox>>

(***************************************************************************)
(* The transport, one send_message at a time (SpecTransport).  A handler   *)
(* changes the replica's state and leaves in outbox the send_message calls *)
(* of its broadcasts: for each message, one to every other replica, in the *)
(* order of the ids.  send_message locks NETWORK, looks the peer up and    *)
(* awaits sender.send, which completes when the peer's inbox has room; the *)
(* guard is dropped when send_message returns.  A replica whose outbox is  *)
(* not empty is inside a broadcast: it is either waiting for the mutex or  *)
(* holding it, and takes nothing from its inbox.                           *)
(***************************************************************************)
Peers(i) ==
    SelectSeq([k \in 1 .. N |-> k - 1], LAMBDA j : j # i)

RECURSIVE Fanout(_, _)
Fanout(i, out) ==
    IF out = <<>>
    THEN <<>>
    ELSE [k \in 1 .. (N - 1) |-> <<Peers(i)[k], Head(out)>>]
            \o Fanout(i, Tail(out))

\* the handler's effects on the replica itself, its sends left in outbox
Begin(i, c) ==
    /\ node' = [node EXCEPT ![i] = c.n]
    /\ disk' = [disk EXCEPT ![i] = c.file]
    /\ sent' = [sent EXCEPT ![i] = @ (+) Inner(c.out)]
    /\ outbox' = [outbox EXCEPT ![i] = Fanout(i, c.out)]
    /\ pc' = [pc EXCEPT ![i] = IF c.panic THEN "down" ELSE @]

\* main: the simulated client request, handled outside the loop
Submit(i, operation) ==
    /\ Running(i)
    /\ outbox[i] = <<>>
    /\ used.requests < budget.requests
    /\ Begin(i, handle_request(Ctx(node[i], disk[i]), Request(operation)))
    /\ used' = [used EXCEPT !.requests = @ + 1]
    /\ UNCHANGED <<inbox, faulty, budget, lock>>

\* Node::run, the receive branch of the select
Handle(i) ==
    /\ Running(i)
    /\ outbox[i] = <<>>
    /\ inbox[i] # <<>>
    /\ \E c \in handle_message(Ctx(node[i], disk[i]), Head(inbox[i])) :
          Begin(i, c)
    /\ inbox' = [inbox EXCEPT ![i] = Tail(@)]
    /\ UNCHANGED <<faulty, budget, used, lock>>

\* send_message: NETWORK.lock()
send_message_lock(i) ==
    /\ outbox[i] # <<>>
    /\ lock = {}
    /\ lock' = {i}
    /\ UNCHANGED <<node, inbox, disk, sent, faulty, budget, used, pc,
                   outbox>>

\* send_message: the lookup, sender.send(msg).await and the return
send_message_send(i) ==
    /\ lock = {i}
    /\ LET peer == Head(outbox[i])[1]
           msg == Head(outbox[i])[2]
       IN  IF Receives(peer)
           THEN /\ Len(inbox[peer]) < Capacity
                /\ inbox' = [inbox EXCEPT ![peer] = Append(@, msg)]
           ELSE UNCHANGED inbox
    /\ outbox' = [outbox EXCEPT ![i] = Tail(@)]
    /\ lock' = {}
    /\ UNCHANGED <<node, disk, sent, faulty, budget, used, pc>>

(***************************************************************************)
(* Happy path: four honest replicas, one request at the primary, no        *)
(* timeout.                                                                *)
(***************************************************************************)
InitHappy ==
    InitWith({}, {}, Budget(1, 0, 0))

NextHappy ==
    \/ ClientRequest(0, "op1")
    \/ \E i \in Replicas : Deliver(i)

SpecHappy ==
    InitHappy /\ [][NextHappy]_vars

(***************************************************************************)
(* Four honest replicas: clients hand requests to any replica and one       *)
(* replica times out.                                                      *)
(***************************************************************************)
Init ==
    InitWith({}, {}, Budget(MaxRequests, 1, 0))

Next ==
    \/ \E i \in Replicas, o \in Operations : ClientRequest(i, o)
    \/ \E i \in Replicas : Deliver(i)
    \/ \E i \in Replicas : Timeout(i)
    \/ \E i \in Replicas : NewViewTimerExpire(i)

Spec ==
    Init /\ [][Next]_vars

(***************************************************************************)
(* A faulty primary: replica 0 sends replicas 1 and 2 PrePrepares of view  *)
(* 0 and sequence number 1 for two digests, and 2F+1 copies of a Commit at *)
(* a time; replica 3 hears of it from the Prepares of the other two.       *)
(***************************************************************************)
InitEquivocation ==
    InitWith({0}, {}, Budget(0, 0, MaxEquivocation))

NextEquivocation ==
    \/ \E i \in Replicas : Deliver(i)
    \/ \E i \in {1, 2}, d \in Digests :
          ByzantineSend(0, i, PrePrepare(0, 1, d), 1)
    \/ \E i \in {1, 2}, d \in Digests :
          ByzantineSend(0, i, Commit(0, 1, d), 2 * F + 1)

SpecEquivocation ==
    InitEquivocation /\ [][NextEquivocation]_vars

(***************************************************************************)
(* A silent primary: replica 0 sends nothing, the other replicas time out. *)
(***************************************************************************)
InitViewChange ==
    InitWith({0}, {}, Budget(0, MaxTimeouts, 0))

NextViewChange ==
    \/ \E i \in Replicas : Timeout(i)
    \/ \E i \in Replicas : Deliver(i)
    \/ \E i \in Replicas : NewViewTimerExpire(i)

SpecViewChange ==
    InitViewChange /\ [][NextViewChange]_vars

(***************************************************************************)
(* Forged Commits: the primary handles one request and the faulty replica  *)
(* 3 sends Commits of view 0 and sequence number 1, one copy or 2F+1       *)
(* copies at a time.                                                       *)
(***************************************************************************)
InitCommit ==
    InitWith({3}, {}, Budget(1, 0, MaxCommitSends))

NextCommit ==
    \/ ClientRequest(0, "op1")
    \/ \E i \in Replicas : Deliver(i)
    \/ \E i \in Replicas, d \in Digests, copies \in {1, 2 * F + 1} :
          ByzantineSend(3, i, Commit(0, 1, d), copies)

SpecCommit ==
    InitCommit /\ [][NextCommit]_vars

(***************************************************************************)
(* Forged accusations: the primary handles one request and the faulty      *)
(* replica 3 sends ByzantineVotes whose fields it fills as it likes.       *)
(***************************************************************************)
InitAccusation ==
    InitWith({3}, {}, Budget(1, 0, MaxVotes))

NextAccusation ==
    \/ ClientRequest(0, "op1")
    \/ \E i \in Replicas : Deliver(i)
    \/ \E i, a \in Replicas, s \in Honest :
          ByzantineSend(3, i, ByzantineVote(s, a), 1)

SpecAccusation ==
    InitAccusation /\ [][NextAccusation]_vars

(***************************************************************************)
(* Restart: replica 1 has been constructed over the file an earlier run    *)
(* left, which holds (5, SHA256("op1")) in prepared with the two Prepares  *)
(* behind it.  The process is killed, or panics on a malformed signature,  *)
(* and is started again; the faulty replica 3 sends Commits of sequence    *)
(* number 5.                                                               *)
(***************************************************************************)
PreparedFile ==
    [EmptyNodeState EXCEPT
        !.prepared = {<<5, compute_digest("op1")>>},
        !.messages = <<Prepare(0, 5, compute_digest("op1"), 2),
                       Prepare(0, 5, compute_digest("op1"), 3)>>]

InitRestart ==
    /\ faulty = {3}
    /\ budget = WithCrashes(Budget(0, 0, MaxRestartSends), MaxCrashes)
    /\ disk = [i \in Replicas |-> IF i = 1 THEN PreparedFile ELSE NoFile]
    /\ node = [i \in Replicas |->
                  NewNode(i, 0, i, AllKeys, FALSE, disk[i])]
    /\ inbox = [i \in Replicas |-> <<>>]
    /\ sent = [i \in Replicas |-> EmptyBag]
    /\ used = Budget(0, 0, 0)
    /\ pc = [i \in Replicas |-> "running"]
    /\ lock = {}
    /\ outbox = [i \in Replicas |-> <<>>]

NextRestart ==
    \/ \E i \in Replicas : Deliver(i)
    \/ Crash(1)
    \/ Restart(1)
    \/ Run(1)
    \/ \E d \in Digests, copies \in {1, 2 * F + 1} :
          ByzantineSend(3, 1, Commit(0, 5, d), copies)
    \/ \E d \in Digests : ByzantineSendMalformed(3, 1, Commit(0, 5, d))

SpecRestart ==
    InitRestart /\ [][NextRestart]_vars

(***************************************************************************)
(* Bootstrap: four honest replicas, each constructed as main() does it,    *)
(* with its own public key only, and not yet running; a client hands one   *)
(* request to the primary once it runs.                                    *)
(***************************************************************************)
InitBootstrap ==
    /\ faulty = {}
    /\ budget = Budget(1, 0, 0)
    /\ disk = [i \in Replicas |-> NoFile]
    /\ node = [i \in Replicas |->
                  NewNode(i, 0, i, (i :> i), FALSE, disk[i])]
    /\ inbox = [i \in Replicas |-> <<>>]
    /\ sent = [i \in Replicas |-> EmptyBag]
    /\ used = Budget(0, 0, 0)
    /\ pc = [i \in Replicas |-> "new"]
    /\ lock = {}
    /\ outbox = [i \in Replicas |-> <<>>]

NextBootstrap ==
    \/ \E i \in Replicas : Run(i)
    \/ \E i \in Replicas : Deliver(i)
    \/ ClientRequest(0, "op1")

SpecBootstrap ==
    InitBootstrap /\ [][NextBootstrap]_vars

(***************************************************************************)
(* A replica started as byzantine: replica 2 runs the code with            *)
(* is_byzantine set, so its Prepares carry the wrong digest; the primary   *)
(* handles one request.                                                    *)
(***************************************************************************)
InitFlagged ==
    InitWith({}, {2}, Budget(1, 0, 0))

NextFlagged ==
    \/ ClientRequest(0, "op1")
    \/ \E i \in Replicas : Deliver(i)

SpecFlagged ==
    InitFlagged /\ [][NextFlagged]_vars

(***************************************************************************)
(* Transport: four honest replicas in one harness, requests at the         *)
(* primary, every send_message a step of its own.                          *)
(***************************************************************************)
InitTransport ==
    InitWith({}, {}, Budget(MaxTransportRequests, 0, 0))

NextTransport ==
    \/ \E o \in Operations : Submit(0, o)
    \/ \E i \in Replicas : Handle(i)
    \/ \E i \in Replicas : send_message_lock(i)
    \/ \E i \in Replicas : send_message_send(i)

SpecTransport ==
    InitTransport /\ [][NextTransport]_vars

(***************************************************************************)
(* Repeated ViewChanges: one honest replica times out and the faulty       *)
(* replica 3 sends its ViewChange for view 0 or 1, one copy or two at a    *)
(* time.                                                                   *)
(***************************************************************************)
InitForgedViewChange ==
    InitWith({3}, {}, Budget(0, 1, MaxViewChangeSends))

NextForgedViewChange ==
    \/ \E i \in Replicas : Timeout(i)
    \/ \E i \in Replicas : Deliver(i)
    \/ \E i \in Replicas : NewViewTimerExpire(i)
    \/ \E i \in Replicas, v \in {0, 1}, copies \in {1, 2} :
          ByzantineSend(3, i, ViewChange(v, 0, 3), copies)

SpecForgedViewChange ==
    InitForgedViewChange /\ [][NextForgedViewChange]_vars

(***************************************************************************)
(* Queued requests: the primary 0 is silent, clients hand requests to      *)
(* replica 1, which queues them, and replicas 1 and 2 time out, which      *)
(* makes replica 1 the primary of view 1.                                  *)
(***************************************************************************)
InitReinject ==
    InitWith({0}, {}, Budget(MaxPending, 2, 0))

NextReinject ==
    \/ \E o \in Operations : ClientRequest(1, o)
    \/ \E i \in {1, 2} : Timeout(i)
    \/ \E i \in Replicas : Deliver(i)
    \/ \E i \in Replicas : NewViewTimerExpire(i)

SpecReinject ==
    InitReinject /\ [][NextReinject]_vars

(***************************************************************************)
(* Injected PrePrepares: the primary 0 is honest and handles no request;   *)
(* the faulty replica 3, which is not the primary of view 0, sends         *)
(* replicas 1 and 2 PrePrepares of view 0, signed with its own key or in   *)
(* no envelope at all.                                                     *)
(***************************************************************************)
InitInjection ==
    InitWith({3}, {}, Budget(0, 0, MaxInjections))

NextInjection ==
    \/ \E i \in Replicas : Deliver(i)
    \/ \E i \in {1, 2}, d \in Digests :
          ByzantineSend(3, i, PrePrepare(0, 1, d), 1)
    \/ \E i \in {1, 2}, d \in Digests :
          ByzantineSendBare(3, i, PrePrepare(0, 1, d))

SpecInjection ==
    InitInjection /\ [][NextInjection]_vars

(***************************************************************************)
(* Blacklisting: the faulty replica 3 sends replica 1 ByzantineVotes that  *)
(* name replica 1 or replica 2, with any accuser in the sender_id field;   *)
(* replica 2 times out and broadcasts a ViewChange.                        *)
(***************************************************************************)
InitBlacklist ==
    InitWith({3}, {}, Budget(0, 1, MaxBlacklistVotes))

NextBlacklist ==
    \/ Timeout(2)
    \/ \E i \in Replicas : Deliver(i)
    \/ \E s \in {1, 2}, a \in Replicas :
          ByzantineSend(3, 1, ByzantineVote(s, a), 1)

SpecBlacklist ==
    InitBlacklist /\ [][NextBlacklist]_vars

(***************************************************************************)
(* The properties.                                                         *)
(***************************************************************************)
Committed(i) == node[i].state.committed

Prepared(i) == node[i].state.prepared

Quiet == \A i \in Honest : inbox[i] = <<>>

HasSent(i, type, view) ==
    \E m \in BagToSet(sent[i]) : m.type = type /\ m.view = view

\* messages a replica may find in its inbox, each signed by replica 3
SomeViews == 0 .. 2

SomeMessages ==
    {PrePrepare(v, s, d) : v \in SomeViews, s \in {0, 1}, d \in Digests}
    \union {Prepare(v, 1, d, j) :
               v \in SomeViews, d \in Digests, j \in Replicas}
    \union {Commit(v, s, d) :
               v \in SomeViews, s \in {0, 1}, d \in Digests \union {""}}
    \union {ViewChange(v, 0, j) : v \in SomeViews, j \in Replicas}
    \union {NewView(v, <<>>) : v \in SomeViews}
    \union {ByzantineVote(j, k) : j, k \in Replicas}

Signed(b, msg) == SignedMessage(msg, Sign(b, msg), b)

\* C5: happy path, four honest replicas in view 0 holding all keys, no
\* timeout: once the primary has handled Request{"op1"} and every message
\* broadcast has been delivered, each of the four replicas has
\* (1, SHA256("op1")) in its committed set.
C5_HappyPathCommits ==
    (used.requests = 1 /\ Quiet) =>
        \A i \in Replicas : <<1, compute_digest("op1")>> \in Committed(i)

\* C6: silent primary 0: once replicas 1, 2 and 3 have each timed out once
\* and broadcast ViewChange for view 1 and every message has been delivered,
\* replica 1 has broadcast NewView for view 1 and replicas 1, 2 and 3 are in
\* view 1 with view_change_in_progress false.
C6_ViewChangeCompletes ==
    ( /\ used.timeouts = 3
      /\ \A i \in Honest : ViewChange(1, 0, i) \in BagToSet(sent[i])
      /\ Quiet )
    => /\ HasSent(1, "NewView", 1)
       /\ \A i \in Honest :
             node[i].view = 1 /\ ~node[i].view_change_in_progress

\* C7: when the new-view timer of a replica in a view change expires, the
\* replica starts another view change: its view goes up by one and it
\* broadcasts ViewChange for the new view.
C7_CascadingViewChange ==
    [][\A i \in Replicas :
          ( /\ node[i].view_change_in_progress
            /\ node[i].new_view_timer = "Running"
            /\ node'[i].new_view_timer = "Finished" )
          => /\ node'[i].view = node[i].view + 1
             /\ ViewChange(node[i].view + 1, 0, i) \in BagToSet(sent'[i])
      ]_vars

\* C8: no message a replica is delivered and no timeout lowers its view;
\* a view change that starts (start_view_change) raises it; a replica acts
\* as primary (assigns a sequence number to a request, ignores PrePrepares)
\* exactly when its id is view mod N.
C8_NoHandlerLowersView ==
    \A i \in Honest :
        LET c == Ctx(node[i], disk[i])
            timed == handle_timeout(c)
        IN  /\ \A msg \in SomeMessages :
                  \A c1 \in handle_message(c, Signed(3, msg)) :
                      c1.n.view >= node[i].view
            /\ timed.n.view >= node[i].view
            /\ ~node[i].view_change_in_progress =>
                  /\ timed.n.view > node[i].view
                  /\ timed.n.view_change_in_progress
            /\ \A o \in Operations :
                  (handle_request(c, Request(o)).out # <<>>)
                     <=> ( /\ i = node[i].view % N
                           /\ ~node[i].view_change_in_progress )
            /\ \A d \in Digests :
                  (handle_preprepare(c, PrePrepare(node[i].view, 1, d)).out
                      # <<>>) <=> (i # node[i].view % N)

C8_ViewStep ==
    \A i \in Replicas :
        /\ node'[i].view >= node[i].view
        /\ ( /\ ~node[i].view_change_in_progress
             /\ node'[i].view_change_in_progress )
           => node'[i].view > node[i].view

C1_Agreement ==
    \A i, j \in Honest :
        \A p \in Committed(i), q \in Committed(j) :
            p[1] = q[1] => p[2] = q[2]

\* C2: the committed set of a replica is a subset of its prepared set.
C2_CommittedSubsetPrepared ==
    \A i \in Honest : Committed(i) \subseteq Prepared(i)

\* C3: a replica not started as byzantine never broadcasts two Prepares
\* with the same view and sequence number and different digests.
C3_OnePreparePerSequence ==
    \A i \in Honest :
        ~node[i].is_byzantine =>
            \A m1, m2 \in BagToSet(sent[i]) :
                ( /\ m1.type = "Prepare" /\ m2.type = "Prepare"
                  /\ m1.view = m2.view
                  /\ m1.sequence_number = m2.sequence_number )
                => m1.digest = m2.digest

\* C4: with at most F faulty replicas, the blacklist of an honest replica
\* never holds the id of an honest replica.
C4_NoHonestBlacklisted ==
    \A i \in Honest : node[i].blacklist \cap Honest = {}

\* C9: delivering a PrePrepare, Prepare, Commit or ViewChange a second time
\* leaves the NodeState (prepared, committed, messages,
\* view_change_messages, byzantine_votes) as the first delivery left it.
C9_Idempotent ==
    \A i \in Honest :
        \A msg \in {m \in SomeMessages :
                      m.type \in {"PrePrepare", "Prepare", "Commit",
                                  "ViewChange"}} :
            \A c1 \in handle_message(Ctx(node[i], disk[i]), Signed(3, msg)) :
                \A c2 \in handle_message(c1, Signed(3, msg)) :
                    c2.n.state = c1.n.state

\* C10: a Commit delivered twice makes the committed set grow by at most
\* one pair over the two deliveries and makes the replica broadcast
\* nothing; and a replica has broadcast a Commit for a (sequence number,
\* digest) at most once.
C10_DuplicateCommit ==
    \A i \in Honest :
        /\ \A msg \in {m \in SomeMessages : m.type = "Commit"} :
              \A c1 \in handle_message(Ctx(node[i], disk[i]),
                                       Signed(3, msg)) :
                  \A c2 \in handle_message(c1, Signed(3, msg)) :
                      /\ Cardinality(c2.n.state.committed
                                        \ Committed(i)) <= 1
                      /\ c1.out = <<>>
                      /\ c2.out = <<>>
        /\ \A m1, m2 \in BagToSet(sent[i]) :
              ( /\ m1.type = "Commit" /\ m2.type = "Commit"
                /\ m1.sequence_number = m2.sequence_number
                /\ m1.digest = m2.digest )
              => (m1 = m2 /\ CopiesIn(m1, sent[i]) = 1)

\* C10 witness: a replica has handled the same Commit twice in a row and
\* holds the pair of that Commit in its committed set.
C10_Witness ==
    \E i \in Honest :
        LET messages == node[i].state.messages
        IN  \E k \in 1 .. (Len(messages) - 1) :
                /\ messages[k].type = "Commit"
                /\ messages[k + 1] = messages[k]
                /\ <<messages[k].sequence_number, messages[k].digest>>
                      \in Committed(i)
                /\ Cardinality(Committed(i)) = 1

\* C11: restart: a replica whose file holds (5, D) in prepared has, once
\* it is constructed over that file and runs, (5, D) in prepared, has
\* broadcast no Prepare for (5, D) since, and once it has been delivered
\* 2F+1 Commits for sequence number 5 and digest D it has (5, D) in
\* committed, with no PrePrepare delivered.
C11_RestartResumes ==
    \A i \in Honest :
        LET pair == <<5, compute_digest("op1")>>
            messages == node[i].state.messages
        IN  (pc[i] = "running" /\ pair \in load(disk[i]).prepared) =>
               /\ pair \in Prepared(i)
               /\ \A m \in BagToSet(sent[i]) :
                     ~( /\ m.type = "Prepare"
                        /\ m.sequence_number = 5
                        /\ m.digest = pair[2] )
               /\ Cardinality({k \in Indices(messages, "Commit") :
                      /\ messages[k].sequence_number = 5
                      /\ messages[k].digest = pair[2]}) >= 2 * F + 1
                  => pair \in Committed(i)

\* envelopes around msg that replica 3 can send and that do not verify: a
\* sender id no replica has (N), the signature of another key, a signature
\* over other bytes, bytes that are no signature
BadEnvelopes(msg) ==
    {SignedMessage(msg, Sign(N, msg), N),
     SignedMessage(msg, Sign(2, msg), 3),
     SignedMessage(msg, Sign(3, Request("op1")), 3),
     SignedMessage(msg, MalformedSignature(msg), 3)}

\* C12: a SignedMessage whose sender_id is not in the receiver's
\* public_keys, or whose signature does not verify under the sender's key,
\* is dropped: the replica goes on running with its view, sequence_number,
\* digest, NodeState and blacklist (all of Node) as they were, its file as
\* it was, and nothing sent.
C12_InvalidEnvelopeDropped ==
    \A i \in Honest :
        pc[i] = "running" =>
            \A msg \in SomeMessages :
                \A envelope \in BadEnvelopes(msg) :
                    \A c1 \in handle_message(Ctx(node[i], disk[i]),
                                             envelope) :
                        /\ c1.n = node[i]
                        /\ c1.file = disk[i]
                        /\ c1.out = <<>>
                        /\ ~c1.panic

\* the PubKey replica i broadcast at startup has been taken from j's inbox
PubKeyDelivered(i, j) ==
    /\ PubKey(i, node[i].keypair) \in BagToSet(sent[i])
    /\ \A k \in 1 .. Len(inbox[j]) :
          ~( /\ inbox[j][k].type = "SignedMessage"
             /\ inbox[j][k].sender_id = i
             /\ inbox[j][k].message.type = "PubKey" )

\* C13: key bootstrap: a PubKey is never in flight inside a SignedMessage;
\* and once the PubKey replica i broadcast at startup has been delivered
\* to replica j, j's public_keys holds i's key and the SignedMessages i
\* makes verify at j.
C13_KeyBootstrap ==
    /\ \A j \in Honest : \A k \in 1 .. Len(inbox[j]) :
          inbox[j][k].type = "SignedMessage" =>
              inbox[j][k].message.type # "PubKey"
    /\ \A i, j \in Honest :
          (i # j /\ PubKeyDelivered(i, j)) =>
              /\ i \in DOMAIN node[j].public_keys
              /\ \A msg \in SomeMessages :
                    Verify(node[j].public_keys[i], msg,
                           Sign(node[i].keypair, msg))

\* C13, its second half alone: once the PubKey of i has been delivered to
\* j, j holds i's key.
C13_KeyLearned ==
    \A i, j \in Honest :
        (i # j /\ PubKeyDelivered(i, j)) => i \in DOMAIN node[j].public_keys

\* C14: blacklist activation: when a replica has broadcast a ByzantineVote
\* naming id 2 and has been delivered the votes naming 2 of 2F other
\* replicas (three accusers with its own, N = 4, F = 1), its blacklist
\* holds 2: the own accusation counts toward the 2F+1.
C14_BlacklistActivation ==
    \A i \in Honest :
        ( /\ ByzantineVote(2, i) \in BagToSet(sent[i])
          /\ Cardinality(node[i].state.byzantine_votes[2] \ {i}) >= 2 * F )
        => 2 \in node[i].blacklist

\* replica i holds the NETWORK mutex and is suspended in sender.send: the
\* inbox of the peer it sends to is full
SuspendedUnderLock(i) ==
    /\ lock = {i}
    /\ Receives(Head(outbox[i])[1])
    /\ Len(inbox[Head(outbox[i])[1]]) >= Capacity

\* replica a holds the mutex waiting for room in the inbox of b, and b is
\* inside a broadcast, waiting for the mutex: no step of a or b is enabled
DeadlockOnMutex(a, b) ==
    /\ SuspendedUnderLock(a)
    /\ Head(outbox[a])[1] = b
    /\ outbox[b] # <<>>

\* C15: the NETWORK mutex is held for the lookup only: no replica is ever
\* suspended waiting for room in a peer's inbox while it holds the mutex,
\* and so no state is reachable in which a replica that must drain its
\* inbox waits for the mutex held by a sender waiting on that inbox.
C15_MutexHeldForLookupOnly ==
    /\ \A i \in Honest : ~SuspendedUnderLock(i)
    /\ \A a, b \in Honest : ~DeadlockOnMutex(a, b)

\* C15, its second half alone: the deadlock is not reachable.
C15_NoDeadlockOnMutex ==
    \A a, b \in Honest : ~DeadlockOnMutex(a, b)

\* the file holds the prepared set, committed set and view_change_messages
\* of the NodeState
InSync(file, state) ==
    /\ load(file).prepared = state.prepared
    /\ load(file).committed = state.committed
    /\ load(file).view_change_messages = state.view_change_messages

\* C16: durability: when a replica has finished handling a message, its
\* file holds the same prepared set, committed set and
\* view_change_messages as its memory: a write follows every insertion
\* into prepared or committed and every accepted ViewChange.  Stated for a
\* replica whose file and memory agree before the message.
C16_DurableAfterEveryMessage ==
    \A i \in Honest :
        InSync(disk[i], node[i].state) =>
            \A msg \in SomeMessages :
                \A c1 \in handle_message(Ctx(node[i], disk[i]),
                                         Signed(3, msg)) :
                    InSync(c1.file, c1.n.state)

\* the sender ids of the Prepares for digest d that replica i has handled
\* for its current view and sequence number
PrepareSenders(i, d) ==
    LET messages == node[i].state.messages
    IN  {messages[k].sender_id :
            k \in {j \in Indices(messages, "Prepare") :
                      /\ messages[j].view = node[i].view
                      /\ messages[j].sequence_number =
                            node[i].sequence_number
                      /\ messages[j].digest = d}}

\* C17: prepared transition: when the Prepares a replica has handled for
\* its current view and sequence number hold a digest d sent by at least
\* 2F distinct sender ids, the replica has (sequence_number, d) in
\* prepared and has broadcast Commit(view, sequence_number, d).
C17_PreparedTransition ==
    \A i \in Honest :
        \A d \in Digests :
            Cardinality(PrepareSenders(i, d)) >= 2 * F =>
                /\ <<node[i].sequence_number, d>> \in Prepared(i)
                /\ Commit(node[i].view, node[i].sequence_number, d)
                      \in BagToSet(sent[i])

\* the honest replicas that have broadcast a Commit for the pair p
CommitSenders(p) ==
    {j \in Honest :
        \E m \in BagToSet(sent[j]) :
            /\ m.type = "Commit"
            /\ m.sequence_number = p[1]
            /\ m.digest = p[2]}

\* C18: commit quorum: a pair (s, d) is in a replica's committed set only
\* when at least 2F+1 distinct replicas have sent a Commit for (s, d);
\* the copies of one replica's Commit count once.  Every faulty replica is
\* counted as a sender here, whatever it sent.
C18_CommitQuorum ==
    \A i \in Honest :
        \A p \in Committed(i) :
            Cardinality(CommitSenders(p)) + Cardinality(faulty)
                >= 2 * F + 1

\* the node ids of the ViewChanges for view v in a list of messages
ViewChangeSenders(messages, v) ==
    {messages[k].node_id :
        k \in {j \in Indices(messages, "ViewChange") :
                  messages[j].view = v}}

\* C19: a replica has broadcast NewView for view v only if it is the
\* primary of v (id = v mod N) and the ViewChanges for v it held, which
\* the NewView carries, came from at least 2F distinct senders, its own
\* among them; the copies of one sender's ViewChange count once.
C19_NewViewOnlyWithQuorum ==
    \A i \in Honest :
        \A m \in BagToSet(sent[i]) :
            m.type = "NewView" =>
                /\ i = m.view % N
                /\ i \in ViewChangeSenders(m.view_change_messages, m.view)
                /\ Cardinality(ViewChangeSenders(m.view_change_messages,
                                                 m.view)) >= 2 * F

\* C20: once a view change to view v has completed at the primary of v
\* (it has broadcast NewView for v and is in v, no view change in
\* progress), the primary has broadcast one PrePrepare in view v for each
\* request of its queue, in the order of the queue: the k-th request has
\* sequence number k.
C20_PendingReinjected ==
    \A i \in Honest :
        ( /\ HasSent(i, "NewView", node[i].view)
          /\ is_primary(node[i])
          /\ ~node[i].view_change_in_progress )
        => \A k \in 1 .. Len(node[i].pending_requests) :
              PrePrepare(node[i].view, k,
                         compute_digest(node[i].pending_requests[k].operation))
                  \in BagToSet(sent[i])

\* C21: only the primary assigns sequence numbers: a replica in view v
\* adopts a PrePrepare (sets sequence_number and digest, broadcasts a
\* Prepare) only when the primary of v signed it.  With an honest primary:
\* every Prepare an honest replica has broadcast is for a PrePrepare the
\* primary of its view has broadcast, and a replica whose primary has
\* broadcast no PrePrepare has the sequence_number and digest it started
\* with.
C21_OnlyPrimaryAssigns ==
    \A i \in Honest :
        LET primary == node[i].view % N
        IN  /\ \A m \in BagToSet(sent[i]) :
                  (m.type = "Prepare" /\ (m.view % N) \in Honest) =>
                      PrePrepare(m.view, m.sequence_number, m.digest)
                          \in BagToSet(sent[m.view % N])
            /\ ( /\ primary \in Honest
                 /\ primary # i
                 /\ ~HasSent(primary, "PrePrepare", node[i].view) )
               => /\ node[i].sequence_number = 0
                  /\ node[i].digest = ""

\* a SignedMessage of a blacklisted sender b leaves replica i as it was:
\* Node (public_keys included) and file unchanged, nothing sent, no panic
DropsBlacklisted(i) ==
    \A b \in node[i].blacklist :
        \A msg \in SomeMessages :
            \A envelope \in {Signed(b, msg),
                              SignedMessage(msg, MalformedSignature(msg), b)} :
                \A c1 \in handle_message(Ctx(node[i], disk[i]), envelope) :
                    /\ c1.n = node[i]
                    /\ c1.file = disk[i]
                    /\ c1.out = <<>>
                    /\ ~c1.panic

\* a PrePrepare, Prepare, Commit, ViewChange or NewView in the envelope of
\* a sender that is not blacklisted is handed to process_message
DispatchesOthers(i) ==
    \A b \in Replicas \ (node[i].blacklist \union {i}) :
        \A msg \in {m \in SomeMessages : m.type # "ByzantineVote"} :
            handle_message(Ctx(node[i], disk[i]), Signed(b, msg))
                = process_message(Ctx(node[i], disk[i]), msg)

\* C22: once b is in a replica's blacklist, every SignedMessage with
\* sender_id = b is dropped before dispatch (state unchanged, nothing
\* sent), while messages from senders not in the blacklist are still
\* dispatched.
C22_BlacklistFrame ==
    \A i \in Honest :
        pc[i] = "running" => (DropsBlacklisted(i) /\ DispatchesOthers(i))

\* C22, its first half alone: the envelopes of blacklisted senders are
\* dropped.
C22_BlacklistedDropped ==
    \A i \in Honest : pc[i] = "running" => DropsBlacklisted(i)

\* no replica has its own id in its blacklist
NoSelfBlacklist ==
    \A i \in Honest : i \notin node[i].blacklist

\* C23: a protocol message other than PubKey affects a replica only
\* through a SignedMessage whose signature verifies: a bare PrePrepare,
\* Prepare, Commit, ViewChange, NewView or ByzantineVote taken from the
\* inbox is not dispatched: the replica's Node and file are as they were
\* and nothing is sent.
C23_BareMessageIgnored ==
    \A i \in Honest :
        pc[i] = "running" =>
            \A msg \in SomeMessages :
                \A c1 \in handle_message(Ctx(node[i], disk[i]), msg) :
                    /\ c1.n = node[i]
                    /\ c1.file = disk[i]
                    /\ c1.out = <<>>

=============================================================================
